---- MODULE Spec2Model ----
(***************************************************************************)
(* Model of the auto-scheduling engine, class AutoScheduler                *)
(* (src/src/hooks/useSpeech.ts, lines 574-990).                            *)
(*                                                                         *)
(* Time is counted in whole minutes of local time; minute 0 is a Sunday    *)
(* 00:00, so that Date.getDay() is (t \div MinutesPerDay) % 7.  A Date is  *)
(* an integer, an optional value (deadline, taskId, suggestedTime) is a    *)
(* set with at most one element.                                           *)
(*                                                                         *)
(* scheduleAllTasks is synchronous, but it samples the wall clock with     *)
(* `new Date()` at several places.  The pass is therefore cut at those     *)
(* samples: Call (the in-place sort, which reads the clock for urgency),   *)
(* one Attempt per flexible task (scheduleTask, which reads the clock for  *)
(* the search window and for the fallback suggestion) and Return           *)
(* (generateSuggestions, which reads the clock for the overdue scan).      *)
(* Tick lets the wall clock advance between two samples.                   *)
(***************************************************************************)
EXTENDS Integers, Sequences, FiniteSets, TLC

VARIABLES
    clock,          \* the wall clock, what `new Date()` returns
    settings,       \* this.settings
    existingEvents, \* this.existingEvents: the very array the caller passed
    tasks,          \* the caller's array passed to scheduleAllTasks
    pc,             \* "idle" | "loop" | "done": position in scheduleAllTasks
    pending,        \* flexibleTasks not yet visited by the for loop
    result,         \* the SchedulingResult under construction / returned
    calls,          \* number of scheduleAllTasks calls started
    ticks,          \* number of times the clock has advanced
    events0,        \* history: the caller's events when the scheduler was built
    tasks0,         \* history: the caller's task list before the first call
    callNow,        \* history: the clock when the current call started
    callEvents,     \* history: existingEvents when the current call started
    attempts,       \* history: one record per scheduleTask of the current call
    scores,         \* history: the score the sort computed for each task, in
                    \* the order of the sorted list
    firstResult     \* history: what the first call returned, with the clock at
                    \* its start and at its return (a set, {} before)

vars == <<clock, settings, existingEvents, tasks, pc, pending, result, calls, ticks,
          events0, tasks0, callNow, callEvents, attempts, scores, firstResult>>

----------------------------------------------------------------------------
(* Bounds of the model *)

MaxBatch == 2
MaxCalls == 2
MaxTicks == 1

----------------------------------------------------------------------------
(* Dates *)

MinutesPerHour == 60
MinutesPerDay == 24 * MinutesPerHour

At(day, hh, mm) == day * MinutesPerDay + hh * MinutesPerHour + mm

getDay(t) == (t \div MinutesPerDay) % 7
getHours(t) == (t % MinutesPerDay) \div MinutesPerHour
startOfDay(t) == (t \div MinutesPerDay) * MinutesPerDay
\* date-fns endOfDay is 23:59:59.999; against whole-minute instants it orders
\* exactly like the last minute of the day.
endOfDay(t) == startOfDay(t) + MinutesPerDay - 1
\* d.setHours(h, m, 0, 0) on a copy of t
setHours(t, hm) == startOfDay(t) + hm[1] * MinutesPerHour + hm[2]
addMinutes(t, n) == t + n
addDays(t, n) == t + n * MinutesPerDay

Min(x, y) == IF x < y THEN x ELSE y
Max(x, y) == IF x > y THEN x ELSE y

Some(s) == CHOOSE x \in s : TRUE

----------------------------------------------------------------------------
(* Program constants *)

SlotStep == 15           \* "15-minute increments"
WindowDays == 14         \* "Default to 2 weeks if no deadline"
DefaultBufferAfter == 60 \* "Assume 1 hour buffer if no next event"
SuggestHour == 9         \* "9 AM tomorrow"

----------------------------------------------------------------------------
(* Conflict detection *)

\* date-fns isWithinInterval: both ends of the interval are included.
isWithinInterval(d, s, e) == d >= s /\ d <= e

\* Mutant: only the candidate's end is tested against the event.
EventConflictsEndOnly(event, start, end) ==
    isWithinInterval(end, event.start, event.end)

EventConflicts(event, start, end) ==
    \/ isWithinInterval(start, event.start, event.end)
    \/ isWithinInterval(end, event.start, event.end)
    \/ isWithinInterval(event.start, start, end)
    \/ isWithinInterval(event.end, start, end)

findConflicts(events, start, end) ==
    SelectSeq(events, LAMBDA event : EventConflicts(event, start, end))

----------------------------------------------------------------------------
(* Slot enumeration *)

\* Mutant: the weekday is not looked at.
getWorkingHoursAnyDay(s, date) == {s.workingHours}

getWorkingHoursForDate(s, date) ==
    IF getDay(date) \in s.workingHours.daysOfWeek THEN {s.workingHours} ELSE {}

\* Mutant: the candidate is tested without the buffer.
slotDurationNoBuffer(s, durationMinutes) == durationMinutes

\* The padded length tested for a candidate of `durationMinutes`.
slotDuration(s, durationMinutes) == durationMinutes + s.bufferTime

\* Mutant: the slot's end is rounded up to the 15-minute grid.
MakeSlotOnGrid(current, durationMinutes) ==
    [start |-> current,
     end |-> addMinutes(current,
                        ((durationMinutes + SlotStep - 1) \div SlotStep) * SlotStep),
     duration |-> durationMinutes]

\* The TimeSlot pushed for a conflict-free candidate starting at `current`.
MakeSlot(current, durationMinutes) ==
    [start |-> current,
     end |-> addMinutes(current, durationMinutes),
     duration |-> durationMinutes]

RECURSIVE SlotsFrom(_, _, _, _, _)
\* The while loop of findSlotsInRange, from `current` on.
SlotsFrom(events, s, current, end, durationMinutes) ==
    IF ~(current <= end) THEN <<>>
    ELSE LET slotEnd == addMinutes(current, slotDuration(s, durationMinutes)) IN
         IF slotEnd > end THEN <<>>
         ELSE (IF Len(findConflicts(events, current, slotEnd)) = 0
                 THEN <<MakeSlot(current, durationMinutes)>>
                 ELSE <<>>)
              \o SlotsFrom(events, s, current + SlotStep, end, durationMinutes)

findSlotsInRange(events, s, start, end, durationMinutes) ==
    SlotsFrom(events, s, start, end, durationMinutes)

RECURSIVE DaysFrom(_, _, _, _, _)
\* The while loop of findAvailableSlots, from `current` on.
DaysFrom(events, s, current, end, durationMinutes) ==
    IF ~(current < end) THEN <<>>
    ELSE LET dayEnd == endOfDay(current)
             searchEnd == IF dayEnd < end THEN dayEnd ELSE end
             workingHours == getWorkingHoursForDate(s, current)
             daySlots ==
                 IF workingHours # {}
                   THEN LET wh == Some(workingHours)
                            workStart == setHours(current, wh.start)
                            workEnd == setHours(current, wh.end)
                        IN findSlotsInRange(
                               events, s,
                               IF workStart > current THEN workStart ELSE current,
                               IF workEnd < searchEnd THEN workEnd ELSE searchEnd,
                               durationMinutes)
                   ELSE <<>>
         IN daySlots
            \o DaysFrom(events, s, startOfDay(current) + MinutesPerDay, end,
                        durationMinutes)

findAvailableSlots(events, s, start, end, durationMinutes) ==
    DaysFrom(events, s, start, end, durationMinutes)

----------------------------------------------------------------------------
(* Slot scoring and selection *)

\* this.existingEvents.find(e => e.start >= slot.end) takes the first such
\* event in array order.
getBufferAfter(events, slot) ==
    LET after == {i \in 1..Len(events) : events[i].start >= slot.end} IN
    IF after = {} THEN DefaultBufferAfter
    ELSE LET first == CHOOSE i \in after : \A j \in after : i <= j
         IN events[first].start - slot.end

\* scoreTimeSlot returns a fraction; ScoreScale times it is a whole number of
\* minutes: hoursToDeadline / 24 = minutes / 1440, bufferAfter / 30 = 48 * bufferAfter / 1440.
ScoreScale == MinutesPerDay

\* Mutant: no preference for the morning.
scoreTimeSlotNoMorning(events, slot, task) ==
    LET minutesToDeadline ==
            IF task.deadline # {} THEN Some(task.deadline) - slot.start ELSE 0
        proximity ==
            IF task.deadline # {} /\ minutesToDeadline > 0
              THEN Min(minutesToDeadline, 10 * ScoreScale)
              ELSE 0
        bufferAfter == getBufferAfter(events, slot)
    IN proximity + Min(bufferAfter * (ScoreScale \div 30), 5 * ScoreScale)

scoreTimeSlot(events, slot, task) ==
    LET hour == getHours(slot.start)
        morning ==
            IF task.priority = "high"
              THEN (IF hour < 12 THEN 10 ELSE IF hour < 15 THEN 5 ELSE 0)
              ELSE 0
        minutesToDeadline ==
            IF task.deadline # {} THEN Some(task.deadline) - slot.start ELSE 0
        proximity ==
            IF task.deadline # {} /\ minutesToDeadline > 0
              THEN Min(minutesToDeadline, 10 * ScoreScale)
              ELSE 0
        bufferAfter == getBufferAfter(events, slot)
    IN morning * ScoreScale
       + proximity
       + Min(bufferAfter * (ScoreScale \div 30), 5 * ScoreScale)

\* Mutant: a later slot replaces the best one also when it only equals it.
selectLastBestTimeSlot(events, slots, task) ==
    LET score == [i \in 1..Len(slots) |-> scoreTimeSlot(events, slots[i], task)]
        best == CHOOSE i \in 1..Len(slots) :
                    /\ \A j \in 1..(i - 1) : ~(score[j] > score[i])
                    /\ \A j \in (i + 1)..Len(slots) : score[j] < score[i]
    IN slots[best]

\* slots.reduce((best, current) => score(current) > score(best) ? current : best):
\* best starts as the first slot and is replaced only by a strictly higher
\* score, so the fold ends on the first slot that no earlier slot equals or
\* beats and no later slot beats.
selectBestTimeSlot(events, slots, task) ==
    LET score == [i \in 1..Len(slots) |-> scoreTimeSlot(events, slots[i], task)]
        best == CHOOSE i \in 1..Len(slots) :
                    /\ \A j \in 1..(i - 1) : score[j] < score[i]
                    /\ \A j \in (i + 1)..Len(slots) : ~(score[j] > score[i])
    IN slots[best]

\* Mutant: no deduction for a very early or late start.
calculateSchedulingConfidenceNoPenalty(slot, task) ==
    LET hour == getHours(slot.start)
        early == IF task.priority = "high" /\ hour < 12 THEN 2 ELSE 0
        far == IF task.deadline # {}
                  /\ Some(task.deadline) - slot.start > 48 * MinutesPerHour
                 THEN 1 ELSE 0
    IN Max(0, Min(10, 7 + early + far))

\* Confidence in tenths (0.7 is 7), clamped to [0, 1].
calculateSchedulingConfidence(slot, task) ==
    LET hour == getHours(slot.start)
        early == IF task.priority = "high" /\ hour < 12 THEN 2 ELSE 0
        far == IF task.deadline # {}
                  /\ Some(task.deadline) - slot.start > 48 * MinutesPerHour
                 THEN 1 ELSE 0
        odd == IF hour < 8 \/ hour > 18 THEN 1 ELSE 0
    IN Max(0, Min(10, 7 + early + far - odd))

----------------------------------------------------------------------------
(* Dependencies, window, one task *)

RECURSIVE join(_, _)
\* Array.prototype.join
join(seq, sep) ==
    IF Len(seq) = 0 THEN ""
    ELSE IF Len(seq) = 1 THEN seq[1]
    ELSE seq[1] \o sep \o join(Tail(seq), sep)

\* e => e.taskId === depId
HasTaskId(events, depId) == \E i \in 1..Len(events) : depId \in events[i].taskId

\* Mutant: one dependency found is taken for all of them.
checkDependenciesAnyFound(events, task) ==
    LET missing == SelectSeq(task.dependencies,
                             LAMBDA depId : ~HasTaskId(events, depId))
    IN [satisfied |-> Len(missing) = 0 \/ Len(missing) < Len(task.dependencies),
        missing |-> missing]

checkDependencies(events, task) ==
    LET missing == SelectSeq(task.dependencies,
                             LAMBDA depId : ~HasTaskId(events, depId))
    IN [satisfied |-> Len(missing) = 0, missing |-> missing]

\* Mutant: the window is two weeks long whatever the task's deadline.
calculateSchedulingWindowNoDeadline(task, now) ==
    LET start == IF now > task.createdAt THEN now ELSE task.createdAt
    IN [start |-> start, end |-> addDays(start, WindowDays)]

\* Mutant: the window starts at `now` whatever the task's createdAt.
calculateSchedulingWindowFromNow(task, now) ==
    [start |-> now,
     end |-> IF task.deadline # {} THEN Some(task.deadline) ELSE addDays(now, WindowDays)]

calculateSchedulingWindow(task, now) ==
    LET start == IF now > task.createdAt THEN now ELSE task.createdAt
        end == IF task.deadline # {} THEN Some(task.deadline)
                                      ELSE addDays(start, WindowDays)
    IN [start |-> start, end |-> end]

\* Mutant: the suggestion is 09:00 of the day of `now`.
suggestAlternativeTimeToday(now) ==
    startOfDay(now) + SuggestHour * MinutesPerHour

suggestAlternativeTime(now) ==
    startOfDay(addDays(now, 1)) + SuggestHour * MinutesPerHour

DependencyReason(missing) == "Dependencies not satisfied: " \o join(missing, ", ")
NoSlotReason == "No available time slots found"

\* scheduleTask; `now` is the clock sample its helpers take.
scheduleTask(events, s, task, now) ==
    LET dependencyCheck == checkDependencies(events, task) IN
    IF ~dependencyCheck.satisfied
      THEN [success |-> FALSE, start |-> {}, end |-> {}, confidence |-> 0,
            reason |-> DependencyReason(dependencyCheck.missing),
            suggestedTime |-> {}]
      ELSE
        LET schedulingWindow == calculateSchedulingWindow(task, now)
            availableSlots ==
                findAvailableSlots(events, s, schedulingWindow.start,
                                   schedulingWindow.end, task.estimatedDuration)
        IN IF Len(availableSlots) = 0
             THEN [success |-> FALSE, start |-> {}, end |-> {}, confidence |-> 0,
                   reason |-> NoSlotReason,
                   suggestedTime |-> {suggestAlternativeTime(now)}]
             ELSE LET bestSlot == selectBestTimeSlot(events, availableSlots, task) IN
                  [success |-> TRUE,
                   start |-> {bestSlot.start}, end |-> {bestSlot.end},
                   confidence |-> calculateSchedulingConfidence(bestSlot, task),
                   reason |-> "", suggestedTime |-> {}]

\* The CalendarEvent pushed for a placed task (the fields the engine reads).
PlacedEvent(task, attempt) ==
    [start |-> Some(attempt.start), end |-> Some(attempt.end), taskId |-> {task.id}]

----------------------------------------------------------------------------
(* Ranking *)

getPriorityWeight(priority) ==
    IF priority = "high" THEN 3 ELSE IF priority = "medium" THEN 2 ELSE 1

getUrgencyScore(task, now) ==
    IF task.deadline = {} THEN 0
    ELSE LET minutesToDeadline == Some(task.deadline) - now IN
         IF minutesToDeadline < 0 THEN 10
         ELSE IF minutesToDeadline < 24 * MinutesPerHour THEN 8
         ELSE IF minutesToDeadline < 48 * MinutesPerHour THEN 6
         ELSE IF minutesToDeadline < 168 * MinutesPerHour THEN 4
         ELSE 2

Includes(seq, x) == \E i \in 1..Len(seq) : seq[i] = x

\* Mutant: the task's own dependencies are counted.
getDependencyLevelOwn(task, allTasks) == Len(task.dependencies)

getDependencyLevel(task, allTasks) ==
    Cardinality({i \in 1..Len(allTasks) : Includes(allTasks[i].dependencies, task.id)})

RankScore(task, allTasks, now) ==
    getPriorityWeight(task.priority) * 10
    + getUrgencyScore(task, now) * 5
    + getDependencyLevel(task, allTasks) * 3

RECURSIVE InsertSortedUnstable(_, _, _, _)
\* Mutant: t is inserted before the elements it ties with.
InsertSortedUnstable(sorted, t, allTasks, now) ==
    IF Len(sorted) = 0 THEN <<t>>
    ELSE IF RankScore(Head(sorted), allTasks, now) > RankScore(t, allTasks, now)
           THEN <<Head(sorted)>> \o InsertSortedUnstable(Tail(sorted), t, allTasks, now)
           ELSE <<t>> \o sorted

RECURSIVE InsertSorted(_, _, _, _)
\* Insert t after every element that does not compare after it: a stable
\* insertion, as Array.prototype.sort is stable (ES2019).
InsertSorted(sorted, t, allTasks, now) ==
    IF Len(sorted) = 0 THEN <<t>>
    ELSE IF RankScore(Head(sorted), allTasks, now) >= RankScore(t, allTasks, now)
           THEN <<Head(sorted)>> \o InsertSorted(Tail(sorted), t, allTasks, now)
           ELSE <<t>> \o sorted

RECURSIVE SortFrom(_, _, _, _)
SortFrom(sorted, i, allTasks, now) ==
    IF i > Len(allTasks) THEN sorted
    ELSE SortFrom(InsertSorted(sorted, allTasks[i], allTasks, now), i + 1, allTasks, now)

\* tasks.sort(...): the array sorted by descending score
prioritizeTasks(allTasks, now) == SortFrom(<<>>, 1, allTasks, now)

----------------------------------------------------------------------------
(* Suggestions *)

\* Mutant: only the flexible tasks are scanned for passed deadlines.
generateSuggestionsFlexibleOnly(res, allTasks, now) ==
    LET overdue == Cardinality({i \in 1..Len(allTasks) :
                       /\ allTasks[i].isFlexible
                       /\ allTasks[i].deadline # {}
                       /\ Some(allTasks[i].deadline) < now})
    IN (IF Len(res.unscheduledTasks) > 0
          THEN <<[actionType |-> "extend_hours", count |-> Len(res.unscheduledTasks)]>>
          ELSE <<>>)
       \o (IF overdue > 0
             THEN <<[actionType |-> "adjust_deadlines", count |-> overdue]>>
             ELSE <<>>)

generateSuggestions(res, allTasks, now) ==
    LET overdue == Cardinality({i \in 1..Len(allTasks) :
                       allTasks[i].deadline # {} /\ Some(allTasks[i].deadline) < now})
    IN (IF Len(res.unscheduledTasks) > 0
          THEN <<[actionType |-> "extend_hours", count |-> Len(res.unscheduledTasks)]>>
          ELSE <<>>)
       \o (IF overdue > 0
             THEN <<[actionType |-> "adjust_deadlines", count |-> overdue]>>
             ELSE <<>>)

EmptyResult ==
    [success |-> TRUE, scheduledTasks |-> <<>>, unscheduledTasks |-> <<>>,
     conflicts |-> <<>>, suggestions |-> <<>>]

----------------------------------------------------------------------------
(* Inputs the caller may supply *)

Task(id, priority, duration, deadline, createdAt, dependencies, isFlexible) ==
    [id |-> id, priority |-> priority, estimatedDuration |-> duration,
     deadline |-> deadline, createdAt |-> createdAt,
     dependencies |-> dependencies, isFlexible |-> isFlexible]

\* Day 1 is a Monday, day 5 a Friday, day 8 the Monday after.
TaskPool ==
    { Task("a", "high", 28, {}, 0, <<>>, TRUE),
      Task("b", "low", 30, {}, 0, <<"a">>, TRUE),
      Task("d", "medium", 45, {At(9, 10, 0)}, At(6, 0, 0), <<"b", "z">>, TRUE),
      Task("f", "medium", 30, {At(0, 12, 0)}, 0, <<>>, FALSE) }

Event(start, end, taskId) == [start |-> start, end |-> end, taskId |-> taskId]

EventsPool ==
    { <<>>,
      <<Event(At(5, 9, 0), At(5, 11, 0), {}),
        Event(At(1, 9, 30), At(1, 10, 0), {"a"})>> }

Settings(start, end, daysOfWeek, bufferTime) ==
    [workingHours |-> [start |-> start, end |-> end, daysOfWeek |-> daysOfWeek],
     bufferTime |-> bufferTime]

SettingsPool ==
    { Settings(<<9, 0>>, <<11, 0>>, {1, 2, 3, 4, 5}, 5),
      Settings(<<9, 30>>, <<10, 30>>, {0, 1, 3, 5}, 20) }

NowPool == { At(1, 8, 0), At(5, 9, 20) }

TickMinutes == 10

\* Task lists of at most MaxBatch tasks with distinct ids.
Batches ==
    UNION { { q \in [1..n -> TaskPool] : \A i, j \in 1..n : i # j => q[i] # q[j] }
            : n \in 0..MaxBatch }

----------------------------------------------------------------------------
(* The state machine *)

\* A scheduler built on one of `eventLists` with one of `settingsSet`, about to
\* be called with one of `taskLists` at one of the instants `nows`.
Start(nows, settingsSet, eventLists, taskLists) ==
    /\ clock \in nows
    /\ settings \in settingsSet
    /\ existingEvents \in eventLists
    /\ tasks \in taskLists
    /\ pc = "idle"
    /\ pending = <<>>
    /\ result = EmptyResult
    /\ calls = 0
    /\ ticks = 0
    /\ events0 = existingEvents
    /\ tasks0 = tasks
    /\ callNow = clock
    /\ callEvents = existingEvents
    /\ attempts = <<>>
    /\ scores = <<>>
    /\ firstResult = {}

Init == Start(NowPool, SettingsPool, EventsPool, Batches)

\* scheduleAllTasks, lines 588-601: the result object, the in-place sort of the
\* caller's array and the filter of the flexible tasks.
Call ==
    /\ pc \in {"idle", "done"}
    /\ calls < MaxCalls
    /\ tasks' = prioritizeTasks(tasks, clock)
    /\ pending' = SelectSeq(tasks', LAMBDA t : t.isFlexible)
    /\ result' = EmptyResult
    /\ pc' = "loop"
    /\ calls' = calls + 1
    /\ callNow' = clock
    /\ callEvents' = existingEvents
    /\ attempts' = <<>>
    /\ scores' = [k \in 1..Len(tasks') |-> RankScore(tasks'[k], tasks, clock)]
    /\ UNCHANGED <<clock, ticks, settings, existingEvents, events0, tasks0, firstResult>>

\* Mutant: a failed task is listed as unscheduled without a conflicts entry.
RecordWithoutConflict(res, task, attempt) ==
    IF attempt.success
      THEN [res EXCEPT !.scheduledTasks =
                Append(@, [taskId |-> task.id,
                           start |-> Some(attempt.start),
                           end |-> Some(attempt.end),
                           confidence |-> attempt.confidence])]
      ELSE [res EXCEPT !.unscheduledTasks = Append(@, task.id)]

\* What one iteration of the for loop does to the result.
Record(res, task, attempt) ==
    IF attempt.success
      THEN [res EXCEPT !.scheduledTasks =
                Append(@, [taskId |-> task.id,
                           start |-> Some(attempt.start),
                           end |-> Some(attempt.end),
                           confidence |-> attempt.confidence])]
      ELSE [res EXCEPT !.unscheduledTasks = Append(@, task.id),
                       !.conflicts =
                           Append(@, [taskId |-> task.id,
                                      reason |-> IF attempt.reason # ""
                                                   THEN attempt.reason
                                                   ELSE "Could not find suitable time slot",
                                      suggestedTime |-> attempt.suggestedTime])]

\* Mutant: a failed attempt takes back the interval pushed last.
CommitOrBacktrack(events, task, attempt) ==
    IF attempt.success THEN Append(events, PlacedEvent(task, attempt))
    ELSE IF Len(events) > 0 THEN SubSeq(events, 1, Len(events) - 1)
    ELSE events

\* What one iteration of the for loop does to this.existingEvents.
Commit(events, task, attempt) ==
    IF attempt.success THEN Append(events, PlacedEvent(task, attempt)) ELSE events

\* The starts of the slots scheduleTask gets from findAvailableSlots, in the
\* order of their enumeration; none when the dependency check returns first.
Candidates(events, s, task, now) ==
    IF checkDependencies(events, task).satisfied
      THEN LET schedulingWindow == calculateSchedulingWindow(task, now)
               availableSlots ==
                   findAvailableSlots(events, s, schedulingWindow.start,
                                      schedulingWindow.end, task.estimatedDuration)
           IN [i \in 1..Len(availableSlots) |-> availableSlots[i].start]
      ELSE <<>>

\* One iteration of the for loop, lines 603-632.
Attempt ==
    /\ pc = "loop"
    /\ pending # <<>>
    /\ LET task == Head(pending)
           schedulingAttempt == scheduleTask(existingEvents, settings, task, clock)
       IN /\ result' = Record(result, task, schedulingAttempt)
          /\ existingEvents' = Commit(existingEvents, task, schedulingAttempt)
          /\ attempts' = Append(attempts, [task |-> task,
                                           events |-> existingEvents,
                                           now |-> clock,
                                           candidates |->
                                               Candidates(existingEvents, settings,
                                                          task, clock),
                                           attempt |-> schedulingAttempt])
    /\ pending' = Tail(pending)
    /\ UNCHANGED <<clock, ticks, settings, tasks, pc, calls, events0, tasks0, callNow,
                   callEvents, scores, firstResult>>

\* Mutant: the pass counts as a success as soon as one task was placed.
ReturnAnyPlaced ==
    /\ pc = "loop"
    /\ pending = <<>>
    /\ result' = [result EXCEPT
                     !.suggestions = generateSuggestions(result, tasks, clock),
                     !.success = (Len(result.unscheduledTasks) = 0
                                  \/ Len(result.scheduledTasks) > 0)]
    /\ pc' = "done"
    /\ firstResult' = IF calls = 1
                       THEN {[result |-> result', now |-> callNow, returned |-> clock]}
                       ELSE firstResult
    /\ UNCHANGED <<clock, ticks, settings, existingEvents, tasks, pending, calls, events0,
                   tasks0, callNow, callEvents, attempts, scores>>

\* Lines 634-638: suggestions, the success flag, return.
Return ==
    /\ pc = "loop"
    /\ pending = <<>>
    /\ result' = [result EXCEPT
                     !.suggestions = generateSuggestions(result, tasks, clock),
                     !.success = (Len(result.unscheduledTasks) = 0)]
    /\ pc' = "done"
    /\ firstResult' = IF calls = 1
                       THEN {[result |-> result', now |-> callNow, returned |-> clock]}
                       ELSE firstResult
    /\ UNCHANGED <<clock, ticks, settings, existingEvents, tasks, pending, calls, events0,
                   tasks0, callNow, callEvents, attempts, scores>>

\* The wall clock advances while a pass runs; at most MaxTicks times.
Tick ==
    /\ pc = "loop"
    /\ ticks < MaxTicks
    /\ clock' = clock + TickMinutes
    /\ ticks' = ticks + 1
    /\ UNCHANGED <<settings, existingEvents, tasks, pc, pending, result, calls,
                   events0, tasks0, callNow, callEvents, attempts, scores, firstResult>>

Next == Call \/ Attempt \/ Return \/ Tick

Spec == Init /\ [][Next]_vars

----------------------------------------------------------------------------
(* Vocabulary of the properties *)

Placed == result.scheduledTasks
Failed == result.unscheduledTasks

\* [s1, e1) and [s2, e2) share a point
Overlap(s1, e1, s2, e2) == s1 < e2 /\ s2 < e1

TaskById(id) == CHOOSE t \in {tasks[k] : k \in 1..Len(tasks)} : t.id = id

\* Item tags carried by a list of intervals
Tagged(events) == UNION {events[k].taskId : k \in 1..Len(events)}

\* Ids placed by the attempts of this pass that came before attempt i
PlacedBefore(i) ==
    {attempts[j].task.id : j \in {k \in 1..(i - 1) : attempts[k].attempt.success}}

\* Every dependency of attempt i's task is tagged on a pre-existing interval or
\* was placed earlier in this pass.
Satisfying(i) == Tagged(callEvents) \cup PlacedBefore(i)
DepsMet(i) ==
    \A n \in 1..Len(attempts[i].task.dependencies) :
        attempts[i].task.dependencies[n] \in Satisfying(i)
MissingIds(i) ==
    SelectSeq(attempts[i].task.dependencies, LAMBDA d : d \notin Satisfying(i))

----------------------------------------------------------------------------
(* C1 *)

\* C1: no committed placement [start, end) overlaps a pre-existing interval of
\* the conflict set or another placement committed in the same pass.
C1_NoOverlap ==
    \A i \in 1..Len(Placed) :
        /\ \A k \in 1..Len(callEvents) :
               ~Overlap(Placed[i].start, Placed[i].end,
                        callEvents[k].start, callEvents[k].end)
        /\ \A j \in 1..Len(Placed) :
               j # i => ~Overlap(Placed[i].start, Placed[i].end,
                                 Placed[j].start, Placed[j].end)

\* A finished pass with two placements, one of them on the day of a
\* pre-existing interval that the search had to step around.
C1_Witness ==
    /\ pc = "done"
    /\ Len(Placed) >= 2
    /\ \E i \in 1..Len(Placed), k \in 1..Len(callEvents) :
           /\ startOfDay(Placed[i].start) = startOfDay(callEvents[k].start)
           /\ Placed[i].start > callEvents[k].end

----------------------------------------------------------------------------
(* C2 *)

\* C2: the dependency check of an attempted item passes exactly when every
\* dependency id tags a pre-existing interval or an earlier placement of this
\* pass; otherwise the item is not placed and is reported with the reason
\* "Dependencies not satisfied: <missing ids>" and no suggested time.
C2_DependencyGate ==
    \A i \in 1..Len(attempts) :
        LET a == attempts[i].attempt
            id == attempts[i].task.id
        IN /\ DepsMet(i) <=> (a.success \/ a.reason = NoSlotReason)
           /\ ~DepsMet(i) =>
                 /\ ~a.success
                 /\ a.reason = "Dependencies not satisfied: " \o join(MissingIds(i), ", ")
                 /\ a.suggestedTime = {}
                 /\ \A k \in 1..Len(Placed) : Placed[k].taskId # id
                 /\ \E k \in 1..Len(result.conflicts) :
                        result.conflicts[k] =
                            [taskId |-> id, reason |-> a.reason, suggestedTime |-> {}]

\* An item failed on a dependency that is a pending item of the same batch,
\* and that item was placed later in the pass.
C2_Witness ==
    \E i, j \in 1..Len(attempts) :
        /\ i < j
        /\ ~attempts[i].attempt.success
        /\ Includes(attempts[i].task.dependencies, attempts[j].task.id)
        /\ attempts[j].attempt.success
        /\ attempts[j].task.dependencies # <<>>

----------------------------------------------------------------------------
(* C3 *)

\* C3: a committed placement lasts exactly the item's estimatedDuration, in the
\* outcome and in the interval appended to the conflict set.
C3_ExactDuration ==
    \A i \in 1..Len(Placed) :
        /\ Placed[i].end - Placed[i].start = TaskById(Placed[i].taskId).estimatedDuration
        /\ Len(existingEvents) = Len(callEvents) + Len(Placed)
        /\ existingEvents[Len(callEvents) + i] =
               Event(Placed[i].start, Placed[i].end, {Placed[i].taskId})

\* A placement made with a non-zero buffer.
C3_Witness ==
    /\ settings.bufferTime > 0
    /\ Len(Placed) >= 1

----------------------------------------------------------------------------
(* C4 *)

\* C4: a committed placement lies on a configured working weekday, between
\* that day's workStart and workEnd.
C4_WorkingHours ==
    \A i \in 1..Len(Placed) :
        LET p == Placed[i] IN
        /\ getDay(p.start) \in settings.workingHours.daysOfWeek
        /\ setHours(p.start, settings.workingHours.start) <= p.start
        /\ p.end <= setHours(p.start, settings.workingHours.end)

\* A placement that had to skip at least one non-working day after `now`.
C4_Witness ==
    \E i \in 1..Len(attempts) :
        /\ attempts[i].attempt.success
        /\ \E t \in attempts[i].attempt.start :
               /\ startOfDay(t) > startOfDay(attempts[i].now) + MinutesPerDay
               /\ getDay(t - MinutesPerDay) \notin settings.workingHours.daysOfWeek

----------------------------------------------------------------------------
(* C5 *)

\* C5: when scheduleAllTasks has returned, the caller's existing-events
\* collection holds exactly what it held before the call, and the caller's
\* task list has the same elements in the same order.
C5_CallerCollectionsUntouched ==
    pc = "done" =>
        /\ existingEvents = callEvents
        /\ calls = 1 => tasks = tasks0

----------------------------------------------------------------------------
(* C6 *)

\* C6: a second scheduleAllTasks call on the same scheduler, with the same
\* items and at the same instant, returns what the first call returned.
C6_NoStateBetweenCalls ==
    (pc = "done" /\ calls = 2 /\ ticks = 0) =>
        \A first \in firstResult : result = first.result

----------------------------------------------------------------------------
(* C8 *)

RECURSIVE PassFrom(_, _, _, _, _)
\* The for loop run to its end with every clock sample equal to `now`.
PassFrom(res, events, queue, s, now) ==
    IF queue = <<>> THEN res
    ELSE LET attempt == scheduleTask(events, s, Head(queue), now) IN
         PassFrom(Record(res, Head(queue), attempt),
                  Commit(events, Head(queue), attempt), Tail(queue), s, now)

\* The outcome of a pass in which `now` is sampled once.
OneInstantOutcome(taskList, events, s, now) ==
    LET sorted == prioritizeTasks(taskList, now)
        res == PassFrom(EmptyResult, events,
                        SelectSeq(sorted, LAMBDA t : t.isFlexible), s, now)
    IN [res EXCEPT !.suggestions = generateSuggestions(res, sorted, now),
                   !.success = (Len(res.unscheduledTasks) = 0)]

\* C8: the outcome of a pass is the one obtained with every use of the
\* current time equal to the instant at which the pass started, however the
\* clock advances while the pass runs.
C8_NowCapturedOnce ==
    pc = "done" => result = OneInstantOutcome(tasks, callEvents, settings, callNow)

----------------------------------------------------------------------------
(* C9 *)

\* How many entries of the outcome's two lists carry the id
Mentions(id) ==
    Cardinality({i \in 1..Len(Placed) : Placed[i].taskId = id})
    + Cardinality({i \in 1..Len(Failed) : Failed[i] = id})

----------------------------------------------------------------------------
(* C10 *)

\* C10: of two placements committed in the same pass, the later in time
\* starts at least bufferTime minutes after the earlier one ends.
C10_BufferGap ==
    \A i, j \in 1..Len(Placed) :
        (i # j /\ Placed[j].start >= Placed[i].end)
            => Placed[j].start - Placed[i].end >= settings.bufferTime

----------------------------------------------------------------------------
(* C11 *)

\* Scenario D: the default working hours with a buffer of 15 minutes, no
\* existing events, two flexible 30-minute tasks without deadlines.
SettingsD == Settings(<<9, 0>>, <<17, 0>>, {1, 2, 3, 4, 5}, 15)

TaskPoolD ==
    { Task(id, priority, 30, {}, 0, <<>>, TRUE) :
          id \in {"p", "q"}, priority \in {"high", "low"} }

BatchesD == { q \in [1..2 -> TaskPoolD] : q[1].id = "p" /\ q[2].id = "q" }

\* A Monday before, within and after the morning.
NowPoolD == { At(1, 8, 0), At(1, 9, 20), At(1, 13, 0) }

InitD == Start(NowPoolD, {SettingsD}, {<<>>}, BatchesD)

SpecD == InitD /\ [][Next]_vars

\* C11: in scenario D, the second item's committed start is at least 45
\* minutes (30 + 15) after the first item's committed start.
C11_SecondAfterFirst ==
    (pc = "done" /\ callEvents = <<>> /\ Len(Placed) = 2)
        => Placed[2].start >= Placed[1].start + 30 + settings.bufferTime

----------------------------------------------------------------------------
(* C12 *)

\* Mutant: the caller hands over the whole list again.
RemainingAll(taskList, res) == taskList

\* The caller's list for a re-run: the items the outcome `res` did not place.
\* (CalendarView marks each placed task with scheduledStart and passes on the
\* tasks without one.)
Remaining(taskList, res) ==
    SelectSeq(taskList,
              LAMBDA t : \A i \in 1..Len(res.scheduledTasks) :
                             res.scheduledTasks[i].taskId # t.id)

\* scheduleAllTasks called again on the same scheduler, whose existingEvents
\* hold the placements of the pass before, with the items not yet placed.
Rerun ==
    /\ pc = "done"
    /\ calls < MaxCalls
    /\ tasks' = prioritizeTasks(Remaining(tasks, result), clock)
    /\ pending' = SelectSeq(tasks', LAMBDA t : t.isFlexible)
    /\ result' = EmptyResult
    /\ pc' = "loop"
    /\ calls' = calls + 1
    /\ callNow' = clock
    /\ callEvents' = existingEvents
    /\ attempts' = <<>>
    /\ scores' = [k \in 1..Len(tasks') |->
                      RankScore(tasks'[k], Remaining(tasks, result), clock)]
    /\ UNCHANGED <<clock, ticks, settings, existingEvents, events0, tasks0, firstResult>>

FirstCall == calls = 0 /\ Call

\* c ranks above b and depends on it; b depends on a.
TaskPoolRerun ==
    { Task("a", "high", 28, {}, 0, <<>>, TRUE),
      Task("b", "low", 30, {}, 0, <<"a">>, TRUE),
      Task("c", "high", 30, {}, 0, <<"b">>, TRUE) }

BatchesRerun ==
    UNION { { q \in [1..n -> TaskPoolRerun] : \A i, j \in 1..n : i # j => q[i] # q[j] }
            : n \in 0..MaxBatch }

InitRerun == Start(NowPool, SettingsPool, EventsPool, BatchesRerun)

NextRerun == FirstCall \/ Rerun \/ Attempt \/ Return \/ Tick

SpecRerun == InitRerun /\ [][NextRerun]_vars

PlacedIds(res) == {res.scheduledTasks[i].taskId : i \in 1..Len(res.scheduledTasks)}

\* C12 as stated: the re-run after a pass commits no placement.
C12_RerunPlacesNothing ==
    (pc = "done" /\ calls = 2) => Placed = <<>>

\* C12, amended: the re-run after a pass commits no placement for an item the
\* pass had placed; every item it places is one the pass reported as
\* unscheduled, and it places nothing when the pass left nothing unscheduled.
C12_RerunPlacesOnlyFailed ==
    (pc = "done" /\ calls = 2) =>
        \A first \in firstResult :
            /\ PlacedIds(result) \cap PlacedIds(first.result) = {}
            /\ \A i \in 1..Len(Placed) :
                   Includes(first.result.unscheduledTasks, Placed[i].taskId)
            /\ first.result.success => Placed = <<>>

\* A re-run that places an item which failed in the pass on a dependency
\* placed later in that pass.
C12_Witness ==
    /\ pc = "done"
    /\ calls = 2
    /\ Len(Placed) >= 1
    /\ \E first \in firstResult :
           /\ Len(first.result.scheduledTasks) >= 1
           /\ Includes(TaskById(Placed[1].taskId).dependencies,
                       first.result.scheduledTasks[1].taskId)

----------------------------------------------------------------------------
(* C13, C14 *)

\* Inputs at the edge of the input domain: working hours without any working
\* weekday, a task of duration zero.
SettingsPoolEdge ==
    { Settings(<<9, 0>>, <<11, 0>>, {}, 5),
      Settings(<<9, 0>>, <<11, 0>>, {1, 2, 3, 4, 5}, 5) }

TaskPoolEdge ==
    { Task("a", "high", 28, {}, 0, <<>>, TRUE),
      Task("b", "low", 30, {}, 0, <<"a">>, TRUE),
      Task("e", "medium", 0, {}, 0, <<>>, TRUE) }

BatchesEdge ==
    UNION { { q \in [1..n -> TaskPoolEdge] : \A i, j \in 1..n : i # j => q[i] # q[j] }
            : n \in 0..MaxBatch }

InitEdge == Start(NowPool, SettingsPoolEdge, EventsPool, BatchesEdge)

SpecEdge == InitEdge /\ [][Next]_vars

\* C13: with no working weekday configured, no item is attempted and no
\* per-item placement failure is reported.
C13_ConfigurationError ==
    settings.workingHours.daysOfWeek = {} =>
        /\ attempts = <<>>
        /\ Len(result.conflicts) = 0

\* C14: no placement is committed for an item whose estimatedDuration is not
\* positive.
C14_NoPlacementWithoutDuration ==
    \A i \in 1..Len(Placed) : TaskById(Placed[i].taskId).estimatedDuration > 0

----------------------------------------------------------------------------
(* C15 *)

\* C15: a step that places an item appends to the conflict set exactly one
\* interval, tagged with the item's id and equal to the reported [start, end];
\* every other step, a failed attempt included, leaves the conflict set as it
\* is: nothing in it is ever removed or changed.
C15_AppendOnly ==
    [][IF Len(attempts') = Len(attempts) + 1 /\ attempts'[Len(attempts')].attempt.success
         THEN LET task == attempts'[Len(attempts')].task
                  reported == result'.scheduledTasks[Len(result'.scheduledTasks)]
              IN /\ Len(result'.scheduledTasks) = Len(result.scheduledTasks) + 1
                 /\ reported.taskId = task.id
                 /\ existingEvents' =
                        existingEvents
                            \o <<Event(reported.start, reported.end, {task.id})>>
         ELSE existingEvents' = existingEvents]_vars

\* A pass over pre-existing intervals in which an item was placed and a later
\* item failed, the earlier commit still in the conflict set.
C15_Witness ==
    /\ Len(callEvents) >= 1
    /\ Len(attempts) >= 2
    /\ attempts[1].attempt.success
    /\ ~attempts[2].attempt.success
    /\ Len(existingEvents) = Len(callEvents) + 1

----------------------------------------------------------------------------
(* C16 *)

\* Scenario A: the default settings (09:00-17:00 Monday to Friday, buffer 5),
\* no existing events, a high and a low 60-minute task without deadlines.
SettingsA == Settings(<<9, 0>>, <<17, 0>>, {1, 2, 3, 4, 5}, 5)

HighA == Task("h", "high", 60, {}, 0, <<>>, TRUE)
LowA == Task("l", "low", 60, {}, 0, <<>>, TRUE)

BatchesA == { <<HighA, LowA>>, <<LowA, HighA>> }

\* Instants before, in and after the working hours, around noon, around
\* midnight, on the last working day of the week and on the weekend.
NowPoolA ==
    { At(1, 8, 0), At(1, 11, 50), At(1, 12, 10), At(1, 16, 30),
      At(5, 12, 10), At(5, 16, 30), At(6, 10, 0), At(7, 23, 55) }

InitA == Start(NowPoolA, {SettingsA}, {<<>>}, BatchesA)

SpecA == InitA /\ [][Next]_vars

IsWorkingDay(t) == getDay(t) \in settings.workingHours.daysOfWeek

\* The start of the first working day after the day of t
NextWorkingDay(t) ==
    LET later == {n \in 1..7 : IsWorkingDay(addDays(t, n))}
    IN startOfDay(addDays(t, CHOOSE n \in later : \A m \in later : n <= m))

\* t falls on the day of `now` or on the first working day after it
OnCurrentOrNextWorkingDay(t, now) ==
    \/ startOfDay(t) = startOfDay(now) /\ IsWorkingDay(now)
    \/ startOfDay(t) = NextWorkingDay(now)

\* C16: in scenario A, whatever `now`, both items are placed on the current
\* or next working day, the high-priority item starts at or before 12:00 and
\* the low-priority item does not overlap it.
C16_ScenarioA ==
    (pc = "done" /\ callEvents = <<>>) =>
        /\ Failed = <<>>
        /\ Len(Placed) = 2
        /\ Placed[1].taskId = "h"
        /\ Placed[2].taskId = "l"
        /\ \A i \in 1..2 : OnCurrentOrNextWorkingDay(Placed[i].start, callNow)
        /\ Placed[1].start <= setHours(Placed[1].start, <<12, 0>>)
        /\ ~Overlap(Placed[1].start, Placed[1].end, Placed[2].start, Placed[2].end)

\* A pass started after noon: the high-priority item waits for the next
\* morning and the low-priority item is placed before it.
C16_Witness ==
    /\ pc = "done"
    /\ callEvents = <<>>
    /\ getHours(callNow) >= 12
    /\ Len(Placed) = 2
    /\ Placed[2].start < Placed[1].start

----------------------------------------------------------------------------
(* C17 *)

\* C17: the returned outcome has success true exactly when unscheduledTasks
\* is empty, that is when every flexible item was placed; for an empty items
\* list it is the successful outcome with no placements, no failures and no
\* suggestions, and the conflict set is as before the call.
C17_SuccessFlag ==
    pc = "done" =>
        /\ result.success <=> Failed = <<>>
        /\ result.success <=>
               \A k \in 1..Len(tasks) :
                   tasks[k].isFlexible => tasks[k].id \in PlacedIds(result)
        /\ tasks = <<>> =>
               /\ result = [success |-> TRUE, scheduledTasks |-> <<>>,
                            unscheduledTasks |-> <<>>, conflicts |-> <<>>,
                            suggestions |-> <<>>]
               /\ existingEvents = callEvents

\* A returned outcome with a placement and a failure.
C17_Witness ==
    /\ pc = "done"
    /\ ~result.success
    /\ Len(Placed) >= 1
    /\ Len(Failed) >= 1

----------------------------------------------------------------------------
(* C18 *)

\* Tasks whose deadlines lie on the boundaries of the urgency bands as seen
\* from NowPoolRank: exactly 24 h, 48 h and 168 h from Monday 08:00, and now,
\* 24 h and 144 h from Tuesday 08:00.
TaskPoolRank ==
    { Task("r1", "high", 30, {}, 0, <<>>, TRUE),
      Task("r2", "medium", 30, {At(2, 8, 0)}, 0, <<"r1">>, TRUE),
      Task("r3", "low", 30, {At(8, 8, 0)}, 0, <<"r2">>, TRUE),
      Task("r4", "low", 30, {At(3, 8, 0)}, 0, <<"r1">>, FALSE) }

BatchesRank ==
    UNION { { q \in [1..n -> TaskPoolRank] : \A i, j \in 1..n : i # j => q[i] # q[j] }
            : n \in 0..MaxBatch }

NowPoolRank == { At(1, 8, 0), At(2, 8, 0) }

InitRank ==
    Start(NowPoolRank, {Settings(<<9, 0>>, <<11, 0>>, {1, 2, 3, 4, 5}, 5)}, {<<>>},
          BatchesRank)

SpecRank == InitRank /\ [][Next]_vars

Range(seq) == {seq[i] : i \in 1..Len(seq)}

\* The ranking score as the claim states it.
StatedWeight(task) ==
    CASE task.priority = "high" -> 3
      [] task.priority = "medium" -> 2
      [] task.priority = "low" -> 1

StatedUrgency(task, now) ==
    IF task.deadline = {} THEN 0
    ELSE LET deadline == Some(task.deadline) IN
         IF now > deadline THEN 10
         ELSE IF deadline - now < 24 * MinutesPerHour THEN 8
         ELSE IF deadline - now < 48 * MinutesPerHour THEN 6
         ELSE IF deadline - now < 7 * MinutesPerDay THEN 4
         ELSE 2

StatedDependents(task, batch) ==
    Cardinality({k \in 1..Len(batch) :
                     batch[k].id # task.id /\ task.id \in Range(batch[k].dependencies)})

\* C18: the score the sort computes for each item is
\* 10 * priorityWeight + 5 * urgency + 3 * dependents, with the weights,
\* urgency bands and count of dependent other items the claim states.
C18_RankingScore ==
    \A k \in 1..Len(scores) :
        scores[k] = 10 * StatedWeight(tasks[k])
                    + 5 * StatedUrgency(tasks[k], callNow)
                    + 3 * StatedDependents(tasks[k], tasks)

\* A batch scored with a due-within-24h item that another item depends on.
C18_Witness ==
    \E k \in 1..Len(scores) :
        /\ StatedUrgency(tasks[k], callNow) = 8
        /\ StatedDependents(tasks[k], tasks) = 1
        /\ scores[k] = 63

----------------------------------------------------------------------------
(* C19 *)

\* The place of the item `id` in a list of items with distinct ids
Pos(taskList, id) == CHOOSE k \in 1..Len(taskList) : taskList[k].id = id

\* The items attempted so far followed by those still to attempt
AttemptOrder == [i \in 1..Len(attempts) |-> attempts[i].task] \o pending

\* C19: once a pass has started, the flexible items are attempted in the
\* order of the list sorted at its start, which is by descending score with
\* equal scores in input order; the outcome lists follow the attempt order.
C19_AttemptOrder ==
    calls >= 1 =>
        /\ AttemptOrder = SelectSeq(tasks, LAMBDA t : t.isFlexible)
        /\ \A i, j \in 1..Len(tasks) : i < j => scores[i] >= scores[j]
        /\ calls = 1 =>
               /\ Len(tasks) = Len(tasks0)
               /\ Range(tasks) = Range(tasks0)
               /\ \A i, j \in 1..Len(tasks) :
                      (i < j /\ scores[i] = scores[j])
                          => Pos(tasks0, tasks[i].id) < Pos(tasks0, tasks[j].id)
        /\ [i \in 1..Len(Placed) |-> Placed[i].taskId]
               = [i \in 1..Len(Placed) |->
                      SelectSeq(attempts, LAMBDA a : a.attempt.success)[i].task.id]
        /\ Failed
               = [i \in 1..Len(Failed) |->
                      SelectSeq(attempts, LAMBDA a : ~a.attempt.success)[i].task.id]
        /\ Len(Placed) + Len(Failed) = Len(attempts)

\* A first pass over two flexible items of equal score, both attempted.
C19_Witness ==
    /\ calls = 1
    /\ Len(attempts) = 2
    /\ Len(scores) = 2
    /\ scores[1] = scores[2]

----------------------------------------------------------------------------
(* C20 *)

\* A day with one meeting in the middle of the working hours, and tasks whose
\* padded length (15 and 30 minutes with the buffer of 5) is a multiple of the
\* 15-minute step, so that candidates end where the meeting starts and start
\* where it ends.
EventsPoolTouch == { <<>>, <<Event(At(1, 10, 0), At(1, 10, 30), {})>> }

TaskPoolTouch ==
    { Task("t", "medium", 10, {}, 0, <<>>, TRUE),
      Task("u", "low", 25, {}, 0, <<>>, TRUE) }

BatchesTouch ==
    UNION { { q \in [1..n -> TaskPoolTouch] : \A i, j \in 1..n : i # j => q[i] # q[j] }
            : n \in 0..MaxBatch }

InitTouch ==
    Start(NowPool, {Settings(<<9, 0>>, <<11, 0>>, {1, 2, 3, 4, 5}, 5)},
          EventsPoolTouch, BatchesTouch)

SpecTouch == InitTouch /\ [][Next]_vars

\* The padded interval of a candidate of attempt i that starts at g
PaddedEnd(i, g) == g + attempts[i].task.estimatedDuration + settings.bufferTime

\* No interval of the conflict set of attempt i shares a point with [g, padded end)
FreeHalfOpen(i, g) ==
    \A k \in 1..Len(attempts[i].events) :
        ~Overlap(g, PaddedEnd(i, g),
                 attempts[i].events[k].start, attempts[i].events[k].end)

\* The grid points the enumeration visits after a retained candidate c on the
\* same day: it goes on in steps of 15 minutes until the padded interval
\* passes the end of the working hours or of the search window.
VisitedAfter(i, c) ==
    { g \in { c + SlotStep * n : n \in 1..(MinutesPerDay \div SlotStep) } :
          /\ PaddedEnd(i, g) <= setHours(c, settings.workingHours.end)
          /\ PaddedEnd(i, g)
                 <= calculateSchedulingWindow(attempts[i].task, attempts[i].now).end }

\* C20: a candidate is retained exactly when its padded interval [start, end)
\* shares no point with an interval of the conflict set; a candidate that only
\* touches an interval at an endpoint is retained.
C20_HalfOpenConflict ==
    \A i \in 1..Len(attempts) :
        \A c \in Range(attempts[i].candidates) :
            /\ FreeHalfOpen(i, c)
            /\ \A g \in VisitedAfter(i, c) :
                   FreeHalfOpen(i, g) <=> g \in Range(attempts[i].candidates)

----------------------------------------------------------------------------
(* C21 *)

\* One meeting, or two meetings supplied later-first; a high-priority task, a
\* task due on Wednesday 09:30 and a task due in the week after next.
EventsPoolScore ==
    { <<Event(At(1, 10, 0), At(1, 10, 30), {})>>,
      <<Event(At(3, 10, 0), At(3, 10, 30), {}),
        Event(At(1, 10, 0), At(1, 10, 30), {})>> }

TaskPoolScore ==
    { Task("s", "high", 10, {}, 0, <<>>, TRUE),
      Task("v", "medium", 25, {At(3, 9, 30)}, 0, <<>>, TRUE),
      Task("w", "low", 10, {At(12, 9, 0)}, 0, <<>>, TRUE) }

BatchesScore ==
    UNION { { q \in [1..n -> TaskPoolScore] : \A i, j \in 1..n : i # j => q[i] # q[j] }
            : n \in 0..MaxBatch }

InitScore ==
    Start(NowPool, {Settings(<<9, 0>>, <<11, 0>>, {1, 2, 3, 4, 5}, 5)},
          EventsPoolScore, BatchesScore)

SpecScore == InitScore /\ [][Next]_vars

\* The score of the candidate of attempt i that starts at c, against the
\* conflict set the attempt saw
CandidateScore(i, c) ==
    scoreTimeSlot(attempts[i].events,
                  MakeSlot(c, attempts[i].task.estimatedDuration),
                  attempts[i].task)

\* C21: candidates are enumerated in ascending time; the committed slot is a
\* candidate of maximum score and every candidate enumerated before it has a
\* strictly lower score.
C21_FirstBestSlot ==
    \A i \in 1..Len(attempts) :
        LET cands == attempts[i].candidates IN
        /\ \A m, n \in 1..Len(cands) : m < n => cands[m] < cands[n]
        /\ attempts[i].attempt.success =>
               \E n \in 1..Len(cands) :
                   /\ attempts[i].attempt.start = {cands[n]}
                   /\ \A m \in 1..Len(cands) :
                          CandidateScore(i, cands[m]) <= CandidateScore(i, cands[n])
                   /\ \A m \in 1..(n - 1) :
                          CandidateScore(i, cands[m]) < CandidateScore(i, cands[n])

\* A placement on a slot that is not the first candidate and that later
\* candidates equal in score.
C21_Witness ==
    \E i \in 1..Len(attempts) :
        LET cands == attempts[i].candidates IN
        /\ attempts[i].attempt.success
        /\ \E n \in 2..(Len(cands) - 1) :
               /\ attempts[i].attempt.start = {cands[n]}
               /\ CandidateScore(i, cands[n + 1]) = CandidateScore(i, cands[n])

----------------------------------------------------------------------------
(* C22 *)

\* What the deadline adds to the score of the candidate of attempt i that
\* starts at c, in units of 1 / ScoreScale
DeadlineComponent(i, c) ==
    CandidateScore(i, c)
    - scoreTimeSlot(attempts[i].events,
                    MakeSlot(c, attempts[i].task.estimatedDuration),
                    [attempts[i].task EXCEPT !.deadline = {}])

\* C22: of two candidates that start before the deadline, the one that starts
\* closer to it has a deadline component at least as high; the component is
\* never above 10 and is 0 for a start at or after the deadline.
C22_CloserScoresHigher ==
    \A i \in 1..Len(attempts) :
        \A deadline \in attempts[i].task.deadline :
            \A c1, c2 \in Range(attempts[i].candidates) :
                /\ DeadlineComponent(i, c1) <= 10 * ScoreScale
                /\ c1 >= deadline => DeadlineComponent(i, c1) = 0
                /\ (c1 < c2 /\ c2 < deadline)
                       => DeadlineComponent(i, c2) >= DeadlineComponent(i, c1)

----------------------------------------------------------------------------
(* C23 *)

\* What the trailing buffer adds to the score of the candidate of attempt i
\* that starts at c, in units of 1 / ScoreScale: the score of the same slot
\* for a task without priority bonus and without deadline
BufferComponent(i, c) ==
    scoreTimeSlot(attempts[i].events,
                  MakeSlot(c, attempts[i].task.estimatedDuration),
                  [attempts[i].task EXCEPT !.deadline = {}, !.priority = "low"])

\* The minutes from `end` to the next interval in time, 60 when there is none
GapToNext(events, end) ==
    LET after == {k \in 1..Len(events) : events[k].start >= end} IN
    IF after = {} THEN 60
    ELSE LET next == CHOOSE k \in after :
                         \A n \in after : events[k].start <= events[n].start
         IN events[next].start - end

\* C23: the trailing-buffer component of a candidate is min(gap / 30, 5),
\* with gap the minutes from the slot's end to the next interval in time.
C23_GapToNextInterval ==
    \A i \in 1..Len(attempts) :
        \A c \in Range(attempts[i].candidates) :
            30 * BufferComponent(i, c)
                = Min(GapToNext(attempts[i].events,
                                c + attempts[i].task.estimatedDuration) * ScoreScale,
                      5 * 30 * ScoreScale)

----------------------------------------------------------------------------
(* C24 *)

\* A task due on Tuesday 10:00 (overdue from Friday on), a task created on
\* Wednesday 09:40 and a task that fills the longer working day of
\* SettingsPool and does not fit the shorter one.
TaskPoolWindow ==
    { Task("x", "medium", 30, {At(2, 10, 0)}, 0, <<>>, TRUE),
      Task("y", "low", 45, {}, At(3, 9, 40), <<>>, TRUE),
      Task("z", "high", 100, {}, 0, <<>>, TRUE) }

BatchesWindow ==
    UNION { { q \in [1..n -> TaskPoolWindow] : \A i, j \in 1..n : i # j => q[i] # q[j] }
            : n \in 0..MaxBatch }

InitWindow == Start(NowPool, SettingsPool, EventsPool, BatchesWindow)

SpecWindow == InitWindow /\ [][Next]_vars

\* The search window of attempt i as the claim states it
StatedWindowStart(i) == Max(attempts[i].now, attempts[i].task.createdAt)
StatedWindowEnd(i) ==
    IF attempts[i].task.deadline # {} THEN Some(attempts[i].task.deadline)
    ELSE StatedWindowStart(i) + 14 * MinutesPerDay

\* C24: a committed placement starts at or after max(now, createdAt) and
\* ends at or before the window end, the deadline when there is one and
\* 14 days after the window start otherwise.
C24_InsideSearchWindow ==
    \A i \in 1..Len(attempts) :
        attempts[i].attempt.success =>
            /\ Some(attempts[i].attempt.start) >= StatedWindowStart(i)
            /\ Some(attempts[i].attempt.start) >= callNow
            /\ Some(attempts[i].attempt.start) < StatedWindowEnd(i)
            /\ Some(attempts[i].attempt.end) <= StatedWindowEnd(i)
            /\ \A deadline \in attempts[i].task.deadline :
                   Some(attempts[i].attempt.end) <= deadline

\* A placement of a task created after `now`, and one of a task with a
\* deadline on the day of the deadline.
C24_Witness ==
    /\ \E i \in 1..Len(attempts) :
           /\ attempts[i].attempt.success
           /\ attempts[i].task.createdAt > attempts[i].now
    /\ \E i \in 1..Len(attempts) :
           /\ attempts[i].attempt.success
           /\ \E deadline \in attempts[i].task.deadline :
                  startOfDay(deadline) = startOfDay(Some(attempts[i].attempt.start))

----------------------------------------------------------------------------
(* C25 *)

\* The working window of the day of t, clipped to the search window of attempt i
ClippedStart(i, t) == Max(setHours(t, settings.workingHours.start), StatedWindowStart(i))
ClippedEnd(i, t) == Min(setHours(t, settings.workingHours.end), StatedWindowEnd(i))

\* C25: a committed placement starts a whole number of 15-minute steps after
\* its day's clipped range start; its padded interval
\* [start, start + duration + buffer] ends inside the day's clipped working
\* window and overlaps no interval the conflict set held at commit time.
C25_SlotShape ==
    \A i \in 1..Len(attempts) :
        attempts[i].attempt.success =>
            LET start == Some(attempts[i].attempt.start)
                padded == PaddedEnd(i, start)
            IN /\ start >= ClippedStart(i, start)
               /\ (start - ClippedStart(i, start)) % 15 = 0
               /\ padded <= ClippedEnd(i, start)
               /\ \A k \in 1..Len(attempts[i].events) :
                      ~Overlap(start, padded,
                               attempts[i].events[k].start, attempts[i].events[k].end)

\* A placement off the quarter-hour grid, at a window start that falls
\* inside the working hours, and a placement some steps after a range start
\* that is the start of the working hours.
C25_Witness ==
    /\ \E i \in 1..Len(attempts) :
           /\ attempts[i].attempt.success
           /\ Some(attempts[i].attempt.start) % 15 # 0
           /\ Some(attempts[i].attempt.start) = StatedWindowStart(i)
           /\ StatedWindowStart(i) > setHours(StatedWindowStart(i), settings.workingHours.start)
    /\ \E i \in 1..Len(attempts) :
           LET start == Some(attempts[i].attempt.start) IN
           /\ attempts[i].attempt.success
           /\ start > ClippedStart(i, start)
           /\ ClippedStart(i, start) = setHours(start, settings.workingHours.start)

----------------------------------------------------------------------------
(* C26 *)

\* C26: an attempted item whose dependencies are satisfied is placed when the
\* search found a candidate; when it found none the item is not placed and is
\* reported with the reason "No available time slots found" and, as suggested
\* time, 09:00 of the day after the attempt's `now`, on whatever weekday that
\* falls and whatever the conflict set holds there.
C26_NoCandidateFailure ==
    \A i \in 1..Len(attempts) :
        LET a == attempts[i].attempt
            tomorrow == (attempts[i].now \div MinutesPerDay + 1) * MinutesPerDay
        IN DepsMet(i) =>
               /\ a.success <=> attempts[i].candidates # <<>>
               /\ attempts[i].candidates = <<>> =>
                      /\ a.start = {}
                      /\ a.reason = "No available time slots found"
                      /\ a.suggestedTime = {tomorrow + 9 * 60}
                      /\ \A k \in 1..Len(Placed) : Placed[k].taskId # attempts[i].task.id
                      /\ \E k \in 1..Len(result.conflicts) :
                             result.conflicts[k] =
                                 [taskId |-> attempts[i].task.id, reason |-> a.reason,
                                  suggestedTime |-> a.suggestedTime]

\* A failure for lack of a slot whose suggested time falls on a day that is
\* not a working day.
C26_Witness ==
    \E i \in 1..Len(attempts) :
        /\ attempts[i].candidates = <<>>
        /\ attempts[i].attempt.reason = NoSlotReason
        /\ \E t \in attempts[i].attempt.suggestedTime :
               getDay(t) \notin settings.workingHours.daysOfWeek

----------------------------------------------------------------------------
(* C27 *)

\* The suggestions of the returned outcome with the given action type
SuggestionsOf(actionType) ==
    {k \in 1..Len(result.suggestions) : result.suggestions[k].actionType = actionType}

\* Items of the caller's list, flexible or not, whose deadline is before the
\* instant at which the pass returned
OverdueItems ==
    {k \in 1..Len(tasks0) : \E deadline \in tasks0[k].deadline : deadline < clock}

\* C27: the returned outcome holds an extend-hours suggestion exactly when an
\* item failed, carrying the number of failed items, and a deadline-review
\* suggestion exactly when an item of the input list has a deadline before
\* `now`, carrying their number; it holds no other suggestion, and the
\* placements are those the attempts made.
C27_Suggestions ==
    pc = "done" =>
        /\ Cardinality(SuggestionsOf("extend_hours")) = (IF Len(Failed) > 0 THEN 1 ELSE 0)
        /\ \A k \in SuggestionsOf("extend_hours") :
               result.suggestions[k].count = Len(Failed)
        /\ Cardinality(SuggestionsOf("adjust_deadlines"))
               = (IF OverdueItems # {} THEN 1 ELSE 0)
        /\ \A k \in SuggestionsOf("adjust_deadlines") :
               result.suggestions[k].count = Cardinality(OverdueItems)
        /\ Len(result.suggestions)
               = Cardinality(SuggestionsOf("extend_hours"))
                 + Cardinality(SuggestionsOf("adjust_deadlines"))
        /\ Len(Placed) = Len(SelectSeq(attempts, LAMBDA a : a.attempt.success))
        /\ \A k \in 1..Len(Placed) :
               {Placed[k].start} = SelectSeq(attempts, LAMBDA a : a.attempt.success)[k].attempt.start

\* A returned outcome with both suggestions, the item past its deadline being
\* a non-flexible one.
C27_Witness ==
    /\ pc = "done"
    /\ Len(result.suggestions) = 2
    /\ \A k \in OverdueItems : ~tasks0[k].isFlexible

----------------------------------------------------------------------------
(* C28 *)

\* Working hours of one hour before 08:00, across noon and across 19:00; a
\* meeting that covers the first candidates of the Monday evening; a high
\* task due on Friday, a medium task due on Tuesday evening, a low task.
SettingsPoolConfidence ==
    { Settings(<<7, 0>>, <<8, 0>>, {1, 2, 3, 4, 5}, 5),
      Settings(<<11, 30>>, <<12, 30>>, {1, 2, 3, 4, 5}, 5),
      Settings(<<18, 30>>, <<19, 30>>, {1, 2, 3, 4, 5}, 5) }

EventsPoolConfidence == { <<>>, <<Event(At(1, 18, 30), At(1, 18, 50), {})>> }

TaskPoolConfidence ==
    { Task("h", "high", 20, {At(5, 12, 0)}, 0, <<>>, TRUE),
      Task("m", "medium", 20, {At(2, 20, 0)}, 0, <<>>, TRUE),
      Task("l", "low", 20, {}, 0, <<>>, TRUE) }

BatchesConfidence ==
    UNION { { q \in [1..n -> TaskPoolConfidence] :
                  \A i, j \in 1..n : i # j => q[i] # q[j] }
            : n \in 0..MaxBatch }

NowPoolConfidence == { At(1, 6, 0), At(1, 12, 5) }

InitConfidence ==
    Start(NowPoolConfidence, SettingsPoolConfidence, EventsPoolConfidence,
          BatchesConfidence)

SpecConfidence == InitConfidence /\ [][Next]_vars

\* The confidence the claim states for `task` placed at `start`, in tenths
StatedConfidence(task, start) ==
    LET hour == (start % (24 * 60)) \div 60
        raw == 7
               + (IF task.priority = "high" /\ hour < 12 THEN 2 ELSE 0)
               + (IF \E deadline \in task.deadline : deadline - start > 48 * 60
                    THEN 1 ELSE 0)
               - (IF hour < 8 \/ hour > 18 THEN 1 ELSE 0)
    IN IF raw < 0 THEN 0 ELSE IF raw > 10 THEN 10 ELSE raw

\* C28: the confidence reported for a committed placement is 0.7, plus 0.2
\* for a high-priority item starting before 12, plus 0.1 for a deadline more
\* than 48 hours after the start, minus 0.1 for a start hour below 8 or above
\* 18, clamped to [0, 1]; the committed slot is the first best candidate
\* whatever the confidence.
C28_Confidence ==
    /\ \A i \in 1..Len(attempts) :
           attempts[i].attempt.success =>
               /\ attempts[i].attempt.confidence
                      = StatedConfidence(attempts[i].task, Some(attempts[i].attempt.start))
               /\ attempts[i].attempt.confidence \in 0..10
    /\ \A k \in 1..Len(Placed) :
           Placed[k].confidence = StatedConfidence(TaskById(Placed[k].taskId), Placed[k].start)

\* A returned outcome with a placement after 19:00 reported with 0.6.
C28_Witness ==
    /\ pc = "done"
    /\ \E k \in 1..Len(Placed) :
           /\ Placed[k].confidence = 6
           /\ getHours(Placed[k].start) > 18

----------------------------------------------------------------------------
(* C29 *)

\* The task a already on the calendar for Thursday, and a task b that depends
\* on it.
EventsPoolOrder == { <<>>, <<Event(At(4, 9, 30), At(4, 10, 0), {"a"})>> }

TaskPoolOrder ==
    { Task("a", "high", 28, {}, 0, <<>>, TRUE),
      Task("b", "low", 30, {}, 0, <<"a">>, TRUE) }

BatchesOrder ==
    UNION { { q \in [1..n -> TaskPoolOrder] : \A i, j \in 1..n : i # j => q[i] # q[j] }
            : n \in 0..MaxBatch }

InitOrder ==
    Start(NowPool, {Settings(<<9, 0>>, <<11, 0>>, {1, 2, 3, 4, 5}, 5)},
          EventsPoolOrder, BatchesOrder)

SpecOrder == InitOrder /\ [][Next]_vars

\* C29: a placed item starts at or after the end of every interval of the
\* conflict set that is tagged with one of its dependencies.
C29_AfterDependencies ==
    \A i \in 1..Len(attempts) :
        attempts[i].attempt.success =>
            \A k \in 1..Len(attempts[i].events) :
                (attempts[i].events[k].taskId \cap Range(attempts[i].task.dependencies) # {})
                    => Some(attempts[i].attempt.start) >= attempts[i].events[k].end

----------------------------------------------------------------------------
(* C30 *)

\* The places in the sorted list of the flexible items whose deadline is at
\* or before the instant the pass started
OverdueAtCall ==
    {k \in 1..Len(scores) :
         /\ tasks[k].isFlexible
         /\ \E deadline \in tasks[k].deadline : deadline <= callNow}

\* The item at place k of the sorted list is never placed and every attempt
\* at it fails, for lack of a slot or on its dependencies; the returned
\* outcome is not a success.
NeverPlaced(k) ==
    /\ tasks[k].id \notin PlacedIds(result)
    /\ \A i \in 1..Len(attempts) :
           attempts[i].task.id = tasks[k].id =>
               /\ ~attempts[i].attempt.success
               /\ attempts[i].candidates = <<>>
               /\ \/ attempts[i].attempt.reason = "No available time slots found"
                  \/ ~DepsMet(i)
    /\ pc = "done" => ~result.success /\ Includes(Failed, tasks[k].id)

\* C30 as stated: a flexible item whose deadline is at or before `now` is
\* ranked with the maximum urgency and is never placed.
C30_OverdueMaxUrgencyNeverPlaced ==
    \A k \in OverdueAtCall :
        /\ scores[k] = 10 * StatedWeight(tasks[k]) + 5 * 10
                       + 3 * StatedDependents(tasks[k], tasks)
        /\ NeverPlaced(k)

\* C30, amended: a flexible item whose deadline is at or before `now` is
\* never placed; it is ranked with urgency 10 when its deadline is before
\* `now` and with urgency 8 when its deadline is `now`.
C30_OverdueNeverPlaced ==
    \A k \in OverdueAtCall :
        /\ scores[k] = 10 * StatedWeight(tasks[k])
                       + 5 * (IF Some(tasks[k].deadline) < callNow THEN 10 ELSE 8)
                       + 3 * StatedDependents(tasks[k], tasks)
        /\ NeverPlaced(k)

\* A returned outcome in which an item due exactly at the start of the pass
\* had its dependencies satisfied and failed for lack of a slot.
C30_Witness ==
    /\ pc = "done"
    /\ \E k \in OverdueAtCall :
           /\ Some(tasks[k].deadline) = callNow
           /\ \E i \in 1..Len(attempts) :
                  /\ attempts[i].task.id = tasks[k].id
                  /\ DepsMet(i)
                  /\ attempts[i].attempt.reason = NoSlotReason

====
